---- MODULE Spec2Model ----
(***************************************************************************)
(* State-machine model of the turbodoc API gateway: the auth middleware,   *)
(* the Hono error mapper, the batch processors for bookmarks and notes and *)
(* the single-note create and update handlers, over a model of the         *)
(* external store (PostgREST tables "bookmarks" and "notes").  Spec follows *)
(* the batch endpoints, SpecNote the single-note endpoints, SpecCrud the   *)
(* single-resource update, delete and duplicate handlers of the four       *)
(* resource kinds over a populated store, SpecTags the tag aggregation,    *)
(* SpecRead the list, search and get-one handlers, SpecOg the link         *)
(* preview, SpecOwner the create handlers next to the other writes,        *)
(* SpecRace two requests in flight on one note, and SpecCalls the batch    *)
(* loop with every store call split into its issue and its return          *)
(* (SpecCallsFair adds weak fairness of the handler's steps).              *)
(***************************************************************************)
EXTENDS Integers, Sequences, FiniteSets, TLC

\* ---------------------------------------------------------------- bounds
MaxOps == 2          \* longest operations list a modelled batch carries
MaxIds == 1          \* number of row ids the store can hand out
MaxVersion == 2      \* highest version a stored row reaches
MaxRows == 2         \* rows a collection holds when a read request arrives

\* ------------------------------------------------------------ input sets
Users == {"u1", "u2"}
Ids == 1 .. MaxIds
NoId == 0                     \* op.id / result.id is undefined
NoVersion == 0                \* op.version / body.version is undefined
Undef == "undefined"          \* a string-valued field that is undefined
Tables == {"bookmarks", "notes"}
BatchEndpoints == {"BatchBookmarks", "BatchNotes"}
NoteEndpoints == {"CreateNote", "UpdateNote"}
\* the four resource kinds, and their single-resource write routes
Kinds == {"bookmarks", "notes", "diagrams", "code_snippets"}
CrudEndpoints == {"UpdateBookmark", "DeleteBookmark", "UpdateNote", "DeleteNote",
                  "UpdateDiagram", "DeleteDiagram", "DuplicateDiagram",
                  "UpdateCodeSnippet", "DeleteCodeSnippet"}
\* routes with an :id path parameter
ById == CrudEndpoints \cup {"GetNote", "GetDiagram"}
Tokens == {"tok_u1", "tok_u2", "tok_bad"}
Headers == {[kind |-> "missing", token |-> Undef],
            [kind |-> "malformed", token |-> Undef]}
           \cup {[kind |-> "bearer", token |-> t] : t \in Tokens}
\* outcome of one store round trip: no fault, a fault value that is an
\* Error instance, or a fault value that is not (a plain error object)
Faults == {"none", "Error", "object"}
FaultMsg == "store fault"
\* the log of store answers records, per call: the fault, or whether the
\* call reached a row; "nocall" stands for an item that made no store call
FaultReplies == {"Error", "object"}
Reply(f, hit) == IF f # "none" THEN f ELSE IF hit THEN "rows1" ELSE "rows0"

VARIABLES
  table,       \* the store collection this behaviour follows
  store,       \* id -> row, the rows of that collection
  nextId,      \* next id the store hands out (gen_random_uuid)
  pc,          \* position of the request in flight
  req,         \* endpoint, Authorization header and path id of the request
  ctx,         \* request context variables set by requireAuth
  operations,  \* batch body: the operations list
  body,        \* CreateNote / UpdateNote body
  results,     \* batch results accumulated so far
  i,           \* batch loop position: index of the next operation
  replies,     \* what the store answered to each store call of the request
  resp,        \* the HTTP response, once emitted
  writes,      \* store write calls issued by the request in flight
  fetched      \* the rows the store returned to an unordered select

vars == <<table, store, nextId, pc, req, ctx, operations, body, results, i,
          replies, resp, writes, fetched>>

\* ---------------------------------------------------------------- store
\* supabase.from(...): the collection an endpoint addresses
TableOf(endpoint) ==
  CASE endpoint \in {"BatchBookmarks", "UpdateBookmark", "DeleteBookmark",
                     "GetBookmarks", "SearchBookmarks", "GetTags",
                     "GetOgImage", "CreateBookmark"} -> "bookmarks"
    [] endpoint \in {"UpdateDiagram", "DeleteDiagram", "DuplicateDiagram",
                     "GetDiagrams", "GetDiagram", "CreateDiagram"} -> "diagrams"
    [] endpoint \in {"UpdateCodeSnippet", "DeleteCodeSnippet",
                     "GetCodeSnippets", "CreateCodeSnippet"} -> "code_snippets"
    [] OTHER -> "notes"

\* mutant of Matches: the version filter is dropped
Matches_NoVersionFilter(st, id, uid, ver) ==
  /\ id \in DOMAIN st
  /\ st[id].user_id = uid

\* mutant of Matches: the row is addressed by id alone
Matches_NoUserFilter(st, id, uid, ver) ==
  /\ id \in DOMAIN st
  /\ (ver # NoVersion => st[id].version = ver)

\* .eq("id", id).eq("user_id", uid), optionally .eq("version", ver)
Matches(st, id, uid, ver) ==
  /\ id \in DOMAIN st
  /\ st[id].user_id = uid
  /\ (ver # NoVersion => st[id].version = ver)

\* .insert(row): the store assigns id and the column default version = 1
StoreInsert(st, id, uid, title, url) ==
  [x \in DOMAIN st \cup {id} |->
     IF x = id
       THEN [id |-> id, user_id |-> uid, title |-> title,
             url |-> url, version |-> 1]
       ELSE st[x]]

\* mutant of ApplyCols: a column the request omits is written as undefined
ApplyCols_NullsOmitted(row, cols) ==
  [row EXCEPT !.title = cols.title,
              !.url = cols.url,
              !.version = IF cols.version # NoVersion THEN cols.version ELSE @]

\* .update(cols) on the matched row: only the columns present are written
\* (url stands for the kind's second column: url, content, shapes, code)
ApplyCols(row, cols) ==
  [row EXCEPT !.title = IF cols.title # Undef THEN cols.title ELSE @,
              !.url = IF cols.url # Undef THEN cols.url ELSE @,
              !.version = IF cols.version # NoVersion THEN cols.version ELSE @]

StoreUpdate(st, id, cols) == [st EXCEPT ![id] = ApplyCols(st[id], cols)]

\* mutant of StoreDelete: the row survives
StoreDelete_Keeps(st, id) == st

\* .delete() on the matched row
StoreDelete(st, id) == [x \in DOMAIN st \ {id} |-> st[x]]

\* ------------------------------------------------------- response mapper
NoResp == [status |-> 0, body |-> [status |-> 0, message |-> ""]]

\* app.onError: an HTTPException below 500 keeps status and message,
\* everything else becomes the generic 500 envelope
OnError(status, message) ==
  IF status < 500
    THEN [status |-> status, body |-> [status |-> status, message |-> message]]
    ELSE [status |-> 500,
          body |-> [status |-> 500, message |-> "Internal server error"]]

\* --------------------------------------------------------- identity check
\* mutant of GetUser: an unknown token is taken for a user
GetUser_AnyToken(token) ==
  CASE token = "tok_u2" -> [user |-> "u2", error |-> FALSE]
    [] OTHER -> [user |-> "u1", error |-> FALSE]

\* supabaseAdminClient(context).auth.getUser(token)
GetUser(token) ==
  CASE token = "tok_u1" -> [user |-> "u1", error |-> FALSE]
    [] token = "tok_u2" -> [user |-> "u2", error |-> FALSE]
    [] OTHER -> [user |-> Undef, error |-> TRUE]

NoCtx == [user |-> Undef, authToken |-> Undef]
NoReq == [endpoint |-> Undef, header |-> [kind |-> "missing", token |-> Undef],
          id |-> NoId]
NoBody == [title |-> Undef, url |-> Undef, version |-> NoVersion]

\* no request in flight
Idle ==
  /\ pc = "idle"
  /\ req = NoReq
  /\ ctx = NoCtx
  /\ operations = <<>>
  /\ body = NoBody
  /\ results = <<>>
  /\ i = 1
  /\ replies = <<>>
  /\ resp = NoResp
  /\ writes = 0
  /\ fetched = <<>>

\* the worker starts with no request in flight, over an empty collection
Fresh ==
  /\ store = <<>>
  /\ nextId = 1
  /\ Idle

Init == table \in Tables /\ Fresh

InitNote == table = "notes" /\ Fresh

\* A request arrives at one of the routes E: endpoint, Authorization header,
\* path parameter.  An insert is only requested while the store has an id left.
Receive(E) ==
  /\ pc \in {"idle", "done"}
  /\ \E e \in E, h \in Headers, id \in Ids :
       /\ TableOf(e) = table
       /\ e = "CreateNote" => nextId <= MaxIds
       /\ e \in {"DuplicateDiagram", "CreateBookmark", "CreateDiagram",
                 "CreateCodeSnippet"} => nextId <= MaxIds + 1
       /\ req' = [endpoint |-> e, header |-> h,
               id |-> IF e \in ById THEN id ELSE NoId]
  /\ pc' = "auth"
  /\ ctx' = NoCtx
  /\ operations' = <<>>
  /\ body' = NoBody
  /\ results' = <<>>
  /\ i' = 1
  /\ replies' = <<>>
  /\ resp' = NoResp
  /\ writes' = 0
  /\ fetched' = <<>>
  /\ UNCHANGED <<table, store, nextId>>

\* requireAuth's catch (error): whatever was thrown inside the try block,
\* the two HTTPException(401) included, is replaced by HTTPException(500)
AuthCatch(status, message) ==
  [status |-> 500, message |-> "Internal server error."]

AuthThrow(status, message) ==
  OnError(AuthCatch(status, message).status, AuthCatch(status, message).message)

RequireAuth ==
  /\ pc = "auth"
  /\ LET h == req.header
         r == GetUser(h.token)
     IN IF h.kind # "bearer"
          THEN /\ resp' = AuthThrow(401, "Invalid authorization header.")
               /\ pc' = "done"
               /\ ctx' = ctx
          ELSE IF r.error
            THEN /\ resp' = AuthThrow(401, "Unauthorized.")
                 /\ pc' = "done"
                 /\ ctx' = ctx
            ELSE /\ ctx' = [user |-> r.user, authToken |-> h.token]
                 /\ pc' = "handle"
                 /\ resp' = resp
  /\ UNCHANGED <<table, fetched, store, nextId, req, operations, body, results, i, replies,
                 writes>>

\* ------------------------------------------------------ batch processor
\* the operation objects a batch body may carry (read with c.req.json())
OpIds == {1}
OpVersions == {NoVersion, 1, 2}

OpSet ==
  {[operation |-> "create", id |-> NoId, title |-> Undef, url |-> u,
    version |-> NoVersion] : u \in {Undef, "u"}}
  \cup {[operation |-> "update", id |-> d, title |-> "t", url |-> Undef,
         version |-> v] : d \in OpIds, v \in OpVersions}
  \cup {[operation |-> o, id |-> NoId, title |-> Undef, url |-> Undef,
         version |-> NoVersion] : o \in {"update", "delete", "upsert"}}
  \cup {[operation |-> "delete", id |-> d, title |-> Undef, url |-> Undef,
         version |-> NoVersion] : d \in OpIds}

SeqsUpTo(S, n) == UNION {[1 .. k -> S] : k \in 0 .. n}


Result(success, operation, id, error, data) ==
  [success |-> success, operation |-> operation, id |-> id, error |-> error,
   data |-> data]

\* the inner catch: error instanceof Error ? error.message : "Unknown ..."
CatchMessage(f) == IF f = "Error" THEN FaultMsg ELSE "Unknown error occurred"

CatchResult(op, f) == Result(FALSE, op.operation, op.id, CatchMessage(f), <<>>)

IdRequired(tbl, operation) ==
  (IF tbl = "bookmarks" THEN "Bookmark" ELSE "Note")
    \o " ID is required for " \o operation \o " operation"

VersionConflict(tbl) ==
  "Version conflict - " \o (IF tbl = "bookmarks" THEN "bookmark" ELSE "note")
    \o " was modified by another client"

\* mutant of CreateInvalid: the url check is missing
CreateInvalid_NoUrlCheck(tbl, op) == FALSE

\* create fails validation: only the bookmark processor requires a url
CreateInvalid(tbl, op) == tbl = "bookmarks" /\ op.url = Undef

\* title of the inserted row: op.title || op.url (bookmarks), op.title || ""
InsertTitle(tbl, op) ==
  IF op.title # Undef THEN op.title
  ELSE IF tbl = "bookmarks" THEN op.url ELSE ""

\* updateData of a batch update item: the fields present, never the version
BatchUpdateData(op) ==
  [title |-> op.title, url |-> op.url, version |-> NoVersion]

EmptyCols(cols) ==
  cols.title = Undef /\ cols.url = Undef /\ cols.version = NoVersion

\* the create items of a batch that reach the store's insert
Inserts(tbl, ops) ==
  Cardinality({k \in DOMAIN ops :
                 ops[k].operation = "create" /\ ~CreateInvalid(tbl, ops[k])})

\* const { operations } = await c.req.json()
BatchStart ==
  /\ pc = "handle"
  /\ req.endpoint \in BatchEndpoints
  /\ \/ /\ \E ops \in SeqsUpTo(OpSet, MaxOps) :
             /\ Inserts(table, ops) <= MaxIds + 1 - nextId
             /\ operations' = ops
        /\ pc' = "loop"
        /\ resp' = resp
     \/ \* the body is not JSON: the outer catch rethrows HTTPException(500)
        /\ operations' = operations
        /\ pc' = "done"
        /\ resp' = OnError(500, "Internal server error")
  /\ UNCHANGED <<table, fetched, store, nextId, req, ctx, body, results, i, replies,
                 writes>>

\* case "create"
BatchCreate(tbl, op, f) ==
  IF CreateInvalid(tbl, op)
    THEN /\ results' = Append(results,
               Result(FALSE, "create", NoId,
                      "URL is required for create operation", <<>>))
         /\ replies' = Append(replies, "nocall")
         /\ UNCHANGED <<store, nextId, writes>>
    ELSE /\ writes' = writes + 1
         /\ replies' = Append(replies, Reply(f, TRUE))
         /\ IF f # "none"
              THEN /\ results' = Append(results, CatchResult(op, f))
                   /\ UNCHANGED <<store, nextId>>
              ELSE /\ store' = StoreInsert(store, nextId, ctx.user,
                                           InsertTitle(tbl, op), op.url)
                   /\ nextId' = nextId + 1
                   /\ results' = Append(results,
                         Result(TRUE, "create", nextId, Undef,
                                <<store'[nextId]>>))

\* case "update"
BatchUpdate(tbl, op, f) ==
  IF op.id = NoId
    THEN /\ results' = Append(results,
               Result(FALSE, "update", NoId, IdRequired(tbl, "update"), <<>>))
         /\ replies' = Append(replies, "nocall")
         /\ UNCHANGED <<store, nextId, writes>>
    ELSE /\ writes' = writes + 1
         /\ nextId' = nextId
         /\ replies' = Append(replies,
               Reply(f, Matches(store, op.id, ctx.user, op.version)))
         /\ IF f # "none"
              THEN /\ results' = Append(results, CatchResult(op, f))
                   /\ store' = store
              ELSE IF Matches(store, op.id, ctx.user, op.version)
                THEN /\ store' = StoreUpdate(store, op.id, BatchUpdateData(op))
                     /\ results' = Append(results,
                           Result(TRUE, "update", op.id, Undef,
                                  <<store'[op.id]>>))
                ELSE \* PGRST116: .single() saw no row
                     /\ store' = store
                     /\ results' = Append(results,
                           Result(FALSE, "update", op.id,
                                  VersionConflict(tbl), <<>>))

\* mutant of DeleteResult: a delete that reached no row is a failure
DeleteResult_MissFails(op, hit) ==
  IF hit THEN Result(TRUE, "delete", op.id, Undef, <<>>)
         ELSE Result(FALSE, "delete", op.id, "Not found", <<>>)

\* the result a delete item gets once the store has answered without fault
DeleteResult(op, hit) == Result(TRUE, "delete", op.id, Undef, <<>>)

\* case "delete"
BatchDelete(tbl, op, f) ==
  IF op.id = NoId
    THEN /\ results' = Append(results,
               Result(FALSE, "delete", NoId, IdRequired(tbl, "delete"), <<>>))
         /\ replies' = Append(replies, "nocall")
         /\ UNCHANGED <<store, nextId, writes>>
    ELSE /\ writes' = writes + 1
         /\ nextId' = nextId
         /\ replies' = Append(replies,
               Reply(f, Matches(store, op.id, ctx.user, NoVersion)))
         /\ IF f # "none"
              THEN /\ results' = Append(results, CatchResult(op, f))
                   /\ store' = store
              ELSE /\ store' = IF Matches(store, op.id, ctx.user, NoVersion)
                                 THEN StoreDelete(store, op.id) ELSE store
                   /\ results' = Append(results,
                         DeleteResult(op,
                           Matches(store, op.id, ctx.user, NoVersion)))

\* one iteration of "for (const op of operations)"
BatchStep ==
  /\ pc = "loop"
  /\ i <= Len(operations)
  /\ LET op == operations[i]
         tbl == TableOf(req.endpoint)
     IN \E f \in Faults :
          CASE op.operation = "create" -> BatchCreate(tbl, op, f)
            [] op.operation = "update" -> BatchUpdate(tbl, op, f)
            [] op.operation = "delete" -> BatchDelete(tbl, op, f)
            [] OTHER -> \* the switch has no default branch
                        /\ replies' = Append(replies, "nocall")
                        /\ UNCHANGED <<store, nextId, writes, results>>
  /\ i' = i + 1
  /\ UNCHANGED <<table, fetched, pc, req, ctx, operations, body, resp>>

Summary(ops, rs) ==
  [total |-> Len(ops),
   successful |-> Cardinality({k \in DOMAIN rs : rs[k].success}),
   failed |-> Cardinality({k \in DOMAIN rs : ~rs[k].success})]

\* return c.json({ results, summary })
BatchFinish ==
  /\ pc = "loop"
  /\ i > Len(operations)
  /\ resp' = [status |-> 200,
              body |-> [results |-> results,
                        summary |-> Summary(operations, results)]]
  /\ pc' = "done"
  /\ UNCHANGED <<table, fetched, store, nextId, req, ctx, operations, body, results, i,
                 replies, writes>>

\* ------------------------------------------------------ CreateNote.handle
\* const { title = "", content = "", tags } = body; insert; 201 { data }
CreateNote ==
  /\ pc = "handle"
  /\ req.endpoint = "CreateNote"
  /\ pc' = "done"
  /\ writes' = writes + 1
  /\ \E t \in {Undef, "t"}, f \in Faults :
       /\ body' = [title |-> t, url |-> Undef, version |-> NoVersion]
       /\ replies' = Append(replies, Reply(f, TRUE))
       /\ IF f # "none"
            THEN /\ resp' = OnError(500, "Failed to create note")
                 /\ UNCHANGED <<store, nextId>>
            ELSE /\ store' = StoreInsert(store, nextId, ctx.user,
                                         IF t = Undef THEN "" ELSE t, Undef)
                 /\ nextId' = nextId + 1
                 /\ resp' = [status |-> 201,
                             body |-> [data |-> store'[nextId]]]
  /\ UNCHANGED <<table, fetched, req, ctx, operations, results, i>>

\* ------------------------------------------------------ UpdateNote.handle
BodySet == {[title |-> t, url |-> u, version |-> v] :
              t \in {Undef, "t"}, u \in {Undef, "w"},
              v \in {NoVersion} \cup (1 .. MaxVersion)}

\* const body = await c.req.json(); a body carrying the highest modelled
\* version is left out so that version + 1 stays within MaxVersion
UpdateNoteStart ==
  /\ pc = "handle"
  /\ req.endpoint = "UpdateNote"
  /\ \E b \in BodySet :
       /\ b.version < MaxVersion
       /\ body' = b
       /\ pc' = IF b.version # NoVersion THEN "fetch" ELSE "update"
  /\ UNCHANGED <<table, fetched, store, nextId, req, ctx, operations, results, i,
                 replies, resp, writes>>

\* mutant of Conflict409: data echoes the version the caller supplied
Conflict409_EchoesRequest(currentNote, b) ==
  [status |-> 409,
   body |-> [status |-> 409, message |-> VersionConflict("notes"),
             data |-> [currentNote EXCEPT !.version = b.version]]]

\* the 409 response: the envelope plus the note the store currently holds
Conflict409(currentNote, b) ==
  [status |-> 409,
   body |-> [status |-> 409, message |-> VersionConflict("notes"),
             data |-> currentNote]]

\* if (version !== undefined): select the current note and compare versions
UpdateNoteFetch ==
  /\ pc = "fetch"
  /\ \E f \in Faults :
       /\ replies' = Append(replies,
             Reply(f, Matches(store, req.id, ctx.user, NoVersion)))
       /\ IF f # "none"
            THEN /\ resp' = OnError(500, "Failed to fetch current note")
                 /\ pc' = "done"
            ELSE IF ~Matches(store, req.id, ctx.user, NoVersion)
              THEN /\ resp' = OnError(404, "Note not found")
                   /\ pc' = "done"
              ELSE IF store[req.id].version # body.version
                THEN /\ resp' = Conflict409(store[req.id], body)
                     /\ pc' = "done"
                ELSE /\ resp' = resp
                     /\ pc' = "update"
  /\ UNCHANGED <<table, fetched, store, nextId, req, ctx, operations, body, results, i,
                 writes>>

\* updateNote: the fields present, and version + 1 only when a version came
UpdateNoteData(b) ==
  [title |-> b.title, url |-> b.url,
   version |-> IF b.version # NoVersion THEN b.version + 1 ELSE NoVersion]

UpdateNoteWrite ==
  /\ pc = "update"
  /\ pc' = "done"
  /\ IF EmptyCols(UpdateNoteData(body))
       THEN /\ resp' = OnError(400, "No fields provided to update")
            /\ UNCHANGED <<store, writes, replies>>
       ELSE /\ writes' = writes + 1
            /\ \E f \in Faults :
                 /\ replies' = Append(replies,
                       Reply(f, Matches(store, req.id, ctx.user, NoVersion)))
                 /\ IF f # "none"
                      THEN /\ resp' = OnError(500, "Failed to update note")
                           /\ store' = store
                      ELSE IF ~Matches(store, req.id, ctx.user, NoVersion)
                        THEN /\ resp' = OnError(404, "Note not found")
                             /\ store' = store
                        ELSE /\ store' = StoreUpdate(store, req.id,
                                                     UpdateNoteData(body))
                             /\ resp' = [status |-> 200,
                                         body |-> [data |-> store'[req.id]]]
  /\ UNCHANGED <<table, fetched, nextId, req, ctx, operations, body, results, i>>

\* the batch routes
Next ==
  \/ Receive(BatchEndpoints)
  \/ RequireAuth
  \/ BatchStart
  \/ BatchStep
  \/ BatchFinish

Spec == Init /\ [][Next]_vars

\* the single-note routes
NextNote ==
  \/ Receive(NoteEndpoints)
  \/ RequireAuth
  \/ CreateNote
  \/ UpdateNoteStart
  \/ UpdateNoteFetch
  \/ UpdateNoteWrite

SpecNote == InitNote /\ [][NextNote]_vars

\* ------------------------------------- single-resource update and delete
\* the resource name a handler's messages use
KindName(tbl) ==
  CASE tbl = "bookmarks" -> "Bookmark"
    [] tbl = "notes" -> "Note"
    [] tbl = "diagrams" -> "Diagram"
    [] OTHER -> "Code snippet"

\* the populated collections a worker may start over: rows 1 .. MaxIds, each
\* absent or owned by some user; only notes carry versions above 1
CrudStores(tbl) ==
  UNION {{[x \in D |-> [id |-> x, user_id |-> o[x][1], title |-> "a",
                         url |-> "u", version |-> o[x][2]]] :
            o \in [D -> Users \X (IF tbl = "notes" THEN 1 .. MaxVersion
                                                   ELSE {1})]} :
         D \in SUBSET Ids}

InitCrud ==
  /\ table \in Kinds
  /\ store \in CrudStores(table)
  /\ nextId = MaxIds + 1
  /\ Idle

\* updated*: the body fields present
UpdateCols(b) == [title |-> b.title, url |-> b.url, version |-> NoVersion]

\* what the store answers to update(cols)...select().single(): the caller's
\* row; whether an update that sets no column returns it is the store's
\* choice (emptyHit)
UpdateHits(st, id, uid, cols, emptyHit) ==
  /\ Matches(st, id, uid, NoVersion)
  /\ (EmptyCols(cols) => emptyHit)

\* a thrown Error is rethrown by the handler's catch as the generic 500, a
\* returned store error as the handler's own 500
Fail500(f, message) ==
  OnError(500, IF f = "Error" THEN "Internal server error" ELSE message)

\* UpdateBookmark.handle and UpdateDiagram.handle: one update call
UpdateRow(endpoint) ==
  /\ pc = "handle"
  /\ req.endpoint = endpoint
  /\ pc' = "done"
  /\ writes' = writes + 1
  /\ \E b \in BodySet, f \in Faults, emptyHit \in BOOLEAN :
       /\ b.version = NoVersion
       /\ body' = b
       /\ LET hit == UpdateHits(store, req.id, ctx.user, UpdateCols(b), emptyHit)
          IN /\ replies' = Append(replies, Reply(f, hit))
             /\ IF f = "none" /\ hit
                  THEN /\ store' = StoreUpdate(store, req.id, UpdateCols(b))
                       /\ resp' = [status |-> 200,
                                   body |-> [data |-> store'[req.id]]]
                  ELSE \* if (error): a fault, or PGRST116 from .single()
                       /\ store' = store
                       /\ resp' = Fail500(f, "Failed to update "
                                              \o KindName(table))
  /\ UNCHANGED <<table, fetched, nextId, req, ctx, operations, results, i>>

UpdateBookmark == UpdateRow("UpdateBookmark")

UpdateDiagram == UpdateRow("UpdateDiagram")

\* UpdateCodeSnippet.handle: select the caller's snippet, then update it
UpdateCodeSnippet ==
  /\ pc = "handle"
  /\ req.endpoint = "UpdateCodeSnippet"
  /\ pc' = "done"
  /\ \E b \in BodySet, f1 \in Faults, f2 \in Faults, emptyHit \in BOOLEAN :
       /\ b.version = NoVersion
       /\ body' = b
       /\ LET found == Matches(store, req.id, ctx.user, NoVersion)
              hit == UpdateHits(store, req.id, ctx.user, UpdateCols(b), emptyHit)
          IN IF f1 # "none" \/ ~found
               THEN /\ replies' = Append(replies, Reply(f1, found))
                    /\ resp' = IF f1 = "Error"
                                 THEN Fail500(f1, "")
                                 ELSE OnError(404, "Code snippet not found")
                    /\ UNCHANGED <<store, writes>>
               ELSE /\ replies' = replies \o <<"rows1", Reply(f2, hit)>>
                    /\ writes' = writes + 1
                    /\ IF f2 = "none" /\ hit
                         THEN /\ store' = StoreUpdate(store, req.id, UpdateCols(b))
                              /\ resp' = [status |-> 200,
                                          body |-> [data |-> store'[req.id]]]
                         ELSE /\ store' = store
                              /\ resp' = Fail500(f2, "Failed to update code snippet")
  /\ UNCHANGED <<table, fetched, nextId, req, ctx, operations, results, i>>

\* DeleteBookmark.handle and DeleteDiagram.handle:
\* delete()...select().single(), then if (error) 500, if (!data) 404
DeleteRow(endpoint) ==
  /\ pc = "handle"
  /\ req.endpoint = endpoint
  /\ pc' = "done"
  /\ writes' = writes + 1
  /\ body' = NoBody
  /\ \E f \in Faults :
       LET hit == Matches(store, req.id, ctx.user, NoVersion)
       IN /\ replies' = Append(replies, Reply(f, hit))
          /\ IF f = "none" /\ hit
               THEN /\ store' = StoreDelete(store, req.id)
                    /\ resp' = [status |-> 200,
                                body |-> [message |-> KindName(table)
                                            \o " deleted successfully"]]
               ELSE \* a fault, or PGRST116 from .single() on zero rows
                    /\ store' = store
                    /\ resp' = Fail500(f, "Failed to delete " \o KindName(table))
  /\ UNCHANGED <<table, fetched, nextId, req, ctx, operations, results, i>>

DeleteBookmark == DeleteRow("DeleteBookmark")

DeleteDiagram == DeleteRow("DeleteDiagram")

NoContent == [status |-> 204, body |-> <<>>]

\* DeleteNote.handle: delete() without select, 204 unless the store faults
DeleteNote ==
  /\ pc = "handle"
  /\ req.endpoint = "DeleteNote"
  /\ pc' = "done"
  /\ writes' = writes + 1
  /\ body' = NoBody
  /\ \E f \in Faults :
       LET hit == Matches(store, req.id, ctx.user, NoVersion)
       IN /\ replies' = Append(replies, Reply(f, hit))
          /\ IF f # "none"
               THEN /\ store' = store
                    /\ resp' = Fail500(f, "Failed to delete note")
               ELSE /\ store' = IF hit THEN StoreDelete(store, req.id) ELSE store
                    /\ resp' = NoContent
  /\ UNCHANGED <<table, fetched, nextId, req, ctx, operations, results, i>>

\* DeleteCodeSnippet.handle: select the caller's snippet, then delete it
DeleteCodeSnippet ==
  /\ pc = "handle"
  /\ req.endpoint = "DeleteCodeSnippet"
  /\ pc' = "done"
  /\ body' = NoBody
  /\ \E f1 \in Faults, f2 \in Faults :
       LET found == Matches(store, req.id, ctx.user, NoVersion)
       IN IF f1 # "none" \/ ~found
            THEN /\ replies' = Append(replies, Reply(f1, found))
                 /\ resp' = IF f1 = "Error"
                              THEN Fail500(f1, "")
                              ELSE OnError(404, "Code snippet not found")
                 /\ UNCHANGED <<store, writes>>
            ELSE /\ replies' = replies \o <<"rows1", Reply(f2, TRUE)>>
                 /\ writes' = writes + 1
                 /\ IF f2 # "none"
                      THEN /\ store' = store
                           /\ resp' = Fail500(f2, "Failed to delete code snippet")
                      ELSE /\ store' = StoreDelete(store, req.id)
                           /\ resp' = NoContent
  /\ UNCHANGED <<table, fetched, nextId, req, ctx, operations, results, i>>

\* DuplicateDiagram.handle: select the caller's diagram, insert a copy
DuplicateDiagram ==
  /\ pc = "handle"
  /\ req.endpoint = "DuplicateDiagram"
  /\ pc' = "done"
  /\ body' = NoBody
  /\ \E f1 \in Faults, f2 \in Faults :
       LET found == Matches(store, req.id, ctx.user, NoVersion)
       IN IF f1 # "none" \/ ~found
            THEN /\ replies' = Append(replies, Reply(f1, found))
                 /\ resp' = IF f1 = "Error"
                              THEN Fail500(f1, "")
                              ELSE OnError(404, "Diagram not found")
                 /\ UNCHANGED <<store, nextId, writes>>
            ELSE /\ replies' = replies \o <<"rows1", Reply(f2, TRUE)>>
                 /\ writes' = writes + 1
                 /\ IF f2 # "none"
                      THEN /\ UNCHANGED <<store, nextId>>
                           /\ resp' = Fail500(f2, "Failed to duplicate diagram")
                      ELSE /\ store' = StoreInsert(store, nextId, ctx.user,
                                           store[req.id].title \o " (Copy)",
                                           store[req.id].url)
                           /\ nextId' = nextId + 1
                           /\ resp' = [status |-> 201,
                                       body |-> [data |-> store'[nextId]]]
  /\ UNCHANGED <<table, fetched, req, ctx, operations, results, i>>

\* the single-resource write routes of the four kinds
NextCrud ==
  \/ Receive(CrudEndpoints)
  \/ RequireAuth
  \/ UpdateBookmark
  \/ UpdateNoteStart
  \/ UpdateNoteFetch
  \/ UpdateNoteWrite
  \/ UpdateDiagram
  \/ UpdateCodeSnippet
  \/ DeleteBookmark
  \/ DeleteNote
  \/ DeleteDiagram
  \/ DeleteCodeSnippet
  \/ DuplicateDiagram

SpecCrud == InitCrud /\ [][NextCrud]_vars

\* ------------------------------------------------------- text primitives
\* text a handler takes apart is a sequence of one-character strings
\* SQL NULL in a text column: a value no text equals
Null == <<"null">>
Sep == "|"

\* String.prototype.trim
RECURSIVE TrimStart(_)
TrimStart(s) ==
  IF s # <<>> /\ Head(s) = " " THEN TrimStart(Tail(s)) ELSE s

RECURSIVE TrimEnd(_)
TrimEnd(s) ==
  IF s # <<>> /\ s[Len(s)] = " " THEN TrimEnd(SubSeq(s, 1, Len(s) - 1)) ELSE s

Trim(s) == TrimEnd(TrimStart(s))

\* String.prototype.split(sep): the pieces between separators, at least one
RECURSIVE Split(_, _)
Split(s, sep) ==
  IF \A k \in DOMAIN s : s[k] # sep
    THEN <<s>>
    ELSE LET k == CHOOSE k \in DOMAIN s :
                    s[k] = sep /\ \A j \in 1 .. k - 1 : s[j] # sep
         IN <<SubSeq(s, 1, k - 1)>> \o Split(SubSeq(s, k + 1, Len(s)), sep)

\* ---------------------------------------------------------- GetTags.handle
TopTags == 5

\* bookmark.tags.split("|").map(trim).filter(length > 0)
CleanTags(field) ==
  SelectSeq([k \in DOMAIN Split(field, Sep) |-> Trim(Split(field, Sep)[k])],
            LAMBDA t : t # <<>>)

\* the tags of the fetched bookmarks in the order forEach meets them;
\* if (!bookmark.tags) return
RECURSIVE AllTags(_)
AllTags(rows) ==
  IF rows = <<>> THEN <<>>
  ELSE (IF Head(rows).tags \in {Null, <<>>} THEN <<>>
        ELSE CleanTags(Head(rows).tags)) \o AllTags(Tail(rows))

\* the keys of tagCounts in insertion order
RECURSIVE Keys(_)
Keys(ts) ==
  IF ts = <<>> THEN <<>>
  ELSE LET front == Keys(SubSeq(ts, 1, Len(ts) - 1))
           last == ts[Len(ts)]
       IN IF \E j \in DOMAIN front : front[j] = last
            THEN front ELSE Append(front, last)

\* Array.from(tagCounts.entries()).map(([tag, count]) => ({ tag, count }))
TagCounts(ts) ==
  [k \in DOMAIN Keys(ts) |->
     [tag |-> Keys(ts)[k],
      count |-> Cardinality({j \in DOMAIN ts : ts[j] = Keys(ts)[k]})]]

\* mutant of SortByCount: the entries stay in insertion order
SortByCount_Unsorted(es) == es

\* .sort((a, b) => b.count - a.count), a stable sort: an entry goes behind
\* every earlier entry whose count is not smaller
RECURSIVE SortByCount(_)
SortByCount(es) ==
  IF es = <<>> THEN <<>>
  ELSE LET sorted == SortByCount(SubSeq(es, 1, Len(es) - 1))
           e == es[Len(es)]
           p == Cardinality({j \in DOMAIN sorted : sorted[j].count >= e.count})
       IN SubSeq(sorted, 1, p) \o <<e>> \o SubSeq(sorted, p + 1, Len(sorted))

\* .slice(0, 5)
GetTagsData(rows) ==
  LET sorted == SortByCount(TagCounts(AllTags(rows)))
  IN SubSeq(sorted, 1, IF Len(sorted) < TopTags THEN Len(sorted) ELSE TopTags)

\* the orders in which the store may return the rows S of an unordered select
Orders(S) ==
  {o \in [1 .. Cardinality(S) -> S] :
     \A j, k \in 1 .. Cardinality(S) : j # k => o[j] # o[k]}

\* mutant of RowsOf: the select is not narrowed to the caller
RowsOf_AllUsers(st, uid) == DOMAIN st

\* .eq("user_id", user.id)
RowsOf(st, uid) == {x \in DOMAIN st : st[x].user_id = uid}

\* select("tags").eq("user_id", user.id).not("tags", "is", null).neq("tags", "")
TaggedOf(st, uid) ==
  {x \in RowsOf(st, uid) : st[x].tags # Null /\ st[x].tags # <<>>}

GetTags ==
  /\ pc = "handle"
  /\ req.endpoint = "GetTags"
  /\ pc' = "done"
  /\ body' = NoBody
  /\ \E f \in Faults :
       IF f # "none"
         THEN /\ replies' = Append(replies, f)
              /\ fetched' = <<>>
              /\ resp' = Fail500(f, "Failed to fetch tags")
         ELSE \E o \in Orders(TaggedOf(store, ctx.user)) :
                /\ fetched' = [k \in DOMAIN o |-> [tags |-> store[o[k]].tags]]
                /\ replies' = Append(replies, Reply(f, o # <<>>))
                /\ resp' = [status |-> 200,
                            body |-> [data |-> GetTagsData(fetched')]]
  /\ UNCHANGED <<table, store, nextId, req, ctx, operations, results, i,
                 writes>>

\* the tag fields of the bookmarks a tag request may find
TagFields ==
  {Null, <<>>,
   <<"a", Sep, "b", Sep, "c">>,
   <<"b", Sep, "d", Sep, "a", Sep, "e", Sep, "f", Sep, "d", Sep, "c">>,
   <<" ", "f", " ", Sep, " ", "a", " ">>, <<"f", Sep, "f", Sep, "g">>,
   <<Sep>>, <<"c", Sep, Sep, " ", Sep, "a">>}

\* a collection of up to MaxRows rows whose varying columns are drawn from cols
StoresOf(colSet) ==
  UNION {{[x \in D |-> [id |-> x, user_id |-> o[x][1], title |-> "a",
                         url |-> "u", version |-> 1, tags |-> o[x][2],
                         created |-> x, updated |-> x]] :
            o \in [D -> Users \X colSet]} :
         D \in SUBSET (1 .. MaxRows)}

InitTags ==
  /\ table = "bookmarks"
  /\ store \in StoresOf(TagFields)
  /\ nextId = MaxRows + 1
  /\ Idle

NextTags ==
  \/ Receive({"GetTags"})
  \/ RequireAuth
  \/ GetTags

SpecTags == InitTags /\ [][NextTags]_vars

\* ------------------------------------------------------------ list, get
DefaultLimit == 50

\* mutant of OrderBy: the rows come back in storage order
OrderBy_Storage(st, S, col, asc) ==
  IF S = {} THEN <<>>
  ELSE [k \in 1 .. Cardinality(S) |->
          st[CHOOSE x \in S : Cardinality({y \in S : y < x}) = k - 1]]

\* .order(col, { ascending }) over the selected rows S (the stamps of a
\* collection are distinct)
RECURSIVE OrderBy(_, _, _, _)
OrderBy(st, S, col, asc) ==
  IF S = {} THEN <<>>
  ELSE LET m == CHOOSE x \in S :
                  \A y \in S : IF asc THEN st[x][col] <= st[y][col]
                                       ELSE st[x][col] >= st[y][col]
       IN <<st[m]>> \o OrderBy(st, S \ {m}, col, asc)

\* the switch (sort) of the list handlers: column and direction
SortOf(endpoint, sort) ==
  CASE endpoint = "GetDiagrams" -> [col |-> "updated", asc |-> FALSE]
    [] endpoint = "GetCodeSnippets" -> [col |-> "created", asc |-> FALSE]
    [] sort = "date_oldest" -> [col |-> "created", asc |-> TRUE]
    [] endpoint = "GetNotes" /\ sort = "modified"
         -> [col |-> "updated", asc |-> FALSE]
    [] OTHER -> [col |-> "created", asc |-> FALSE]

\* .range(offset, offset + limit - 1) with offset 0
Range(rows, limit) ==
  SubSeq(rows, 1, IF Len(rows) < limit THEN Len(rows) ELSE limit)

NoQuery == [sort |-> Undef, limit |-> NoId, q |-> Null]

\* the query strings a list request may carry
QuerySet(endpoint) ==
  {[sort |-> srt, limit |-> lim, q |-> Null] :
     srt \in IF endpoint \in {"GetBookmarks", "GetNotes"}
               THEN {Undef, "date_oldest", "modified"} ELSE {Undef},
     lim \in IF endpoint = "GetNotes" THEN {NoId, 1} ELSE {NoId}}

FetchMessage(endpoint) ==
  CASE endpoint = "GetBookmarks" -> "Failed to fetch bookmarks"
    [] endpoint = "GetNotes" -> "Failed to fetch notes"
    [] endpoint = "GetDiagrams" -> "Failed to fetch diagrams"
    [] OTHER -> "Failed to fetch code snippets"

\* what a list handler answers once the store has answered; the requests
\* carry no status, is_favorite, tag, days, search or offset parameter
ListResponse(endpoint, st, uid, query, f) ==
  IF f # "none"
    THEN Fail500(f, FetchMessage(endpoint))
    ELSE LET srt == SortOf(endpoint, query.sort)
             rows == OrderBy(st, RowsOf(st, uid), srt.col, srt.asc)
         IN IF endpoint = "GetNotes"
              THEN [status |-> 200,
                    body |-> [data |-> Range(rows,
                                IF query.limit = NoId THEN DefaultLimit
                                                      ELSE query.limit),
                              count |-> Len(rows)]]
              ELSE [status |-> 200, body |-> [data |-> rows]]

\* GetBookmarks, GetNotes, GetDiagrams, GetCodeSnippets
ListRows(endpoint) ==
  /\ pc = "handle"
  /\ req.endpoint = endpoint
  /\ pc' = "done"
  /\ \E query \in QuerySet(endpoint), f \in Faults :
       /\ body' = query
       /\ replies' = Append(replies, Reply(f, RowsOf(store, ctx.user) # {}))
       /\ resp' = ListResponse(endpoint, store, ctx.user, query, f)
  /\ UNCHANGED <<table, fetched, store, nextId, req, ctx, operations, results,
                 i, writes>>

GetBookmarks == ListRows("GetBookmarks")

GetNotes == ListRows("GetNotes")

GetDiagrams == ListRows("GetDiagrams")

GetCodeSnippets == ListRows("GetCodeSnippets")

\* mutant of GetOneResponse: a row of another user is refused, not missing
GetOneResponse_Forbidden(endpoint, st, uid, id, f) ==
  IF f = "none" /\ id \in DOMAIN st /\ st[id].user_id # uid
    THEN OnError(403, "Forbidden")
  ELSE IF f = "none" /\ id \in DOMAIN st
    THEN [status |-> 200, body |-> [data |-> st[id]]]
  ELSE IF f = "none" THEN OnError(404, "Not found")
  ELSE OnError(500, "Internal server error")

\* what GetNote and GetDiagram answer to select("*").eq(id).eq(user_id).single()
GetOneResponse(endpoint, st, uid, id, f) ==
  IF f = "Error" THEN Fail500(f, "")
  ELSE IF endpoint = "GetDiagram"
    THEN \* if (error || !data) 404
         IF f = "object" \/ ~Matches(st, id, uid, NoVersion)
           THEN OnError(404, "Diagram not found")
           ELSE [status |-> 200, body |-> [data |-> st[id]]]
    ELSE \* PGRST116 -> 404, any other error -> 500
         IF f = "object" THEN Fail500(f, "Failed to fetch note")
         ELSE IF ~Matches(st, id, uid, NoVersion)
           THEN OnError(404, "Note not found")
           ELSE [status |-> 200, body |-> [data |-> st[id]]]

GetOne(endpoint) ==
  /\ pc = "handle"
  /\ req.endpoint = endpoint
  /\ pc' = "done"
  /\ body' = NoQuery
  /\ \E f \in Faults :
       /\ replies' = Append(replies,
             Reply(f, Matches(store, req.id, ctx.user, NoVersion)))
       /\ resp' = GetOneResponse(endpoint, store, ctx.user, req.id, f)
  /\ UNCHANGED <<table, fetched, store, nextId, req, ctx, operations, results,
                 i, writes>>

GetNote == GetOne("GetNote")

GetDiagram == GetOne("GetDiagram")

\* String.prototype.toLowerCase over the letters the texts use
Lower(s) ==
  [k \in DOMAIN s |-> CASE s[k] = "A" -> "a" [] s[k] = "B" -> "b"
                         [] s[k] = "T" -> "t" [] OTHER -> s[k]]

\* text ILIKE %q%
ILike(text, q) ==
  /\ text # Null
  /\ \E k \in 0 .. Len(text) - Len(q) :
       SubSeq(Lower(text), k + 1, k + Len(q)) = Lower(q)

\* the q of a search request; Null when the request carries none
SearchQueries == {Null, <<>>, <<" ">>, <<"a">>, <<" ", "B">>, <<"t">>, <<"z">>}

\* c.req.valid("query") yields the query object when a validator has stored
\* one and undefined otherwise; destructuring undefined throws a TypeError
SearchResponse(st, uid, validated, q, f) ==
  IF ~validated THEN OnError(500, "Internal server error")
  ELSE IF q = Null \/ Len(Trim(q)) = 0
    THEN OnError(400, "Search query is required")
  ELSE IF f # "none" THEN Fail500(f, "Failed to search bookmarks")
  ELSE LET hits == {x \in RowsOf(st, uid) :
                      \/ ILike(st[x].title, Trim(q))
                      \/ ILike(st[x].url, Trim(q))
                      \/ ILike(st[x].tags, Trim(q))}
       IN [status |-> 200,
           body |-> [data |-> OrderBy(st, hits, "created", FALSE),
                     query |-> Trim(q)]]

SearchBookmarks ==
  /\ pc = "handle"
  /\ req.endpoint = "SearchBookmarks"
  /\ pc' = "done"
  /\ \E validated \in BOOLEAN, q \in SearchQueries, f \in Faults :
       /\ validated \/ (q = Null /\ f = "none")
       /\ q = Null \/ Len(Trim(q)) = 0 => f = "none"
       /\ body' = [NoQuery EXCEPT !.q = q]
       /\ replies' = IF ~validated \/ q = Null \/ Len(Trim(q)) = 0
                       THEN replies
                       ELSE Append(replies,
                                   Reply(f, RowsOf(store, ctx.user) # {}))
       /\ resp' = SearchResponse(store, ctx.user, validated, q, f)
  /\ UNCHANGED <<table, fetched, store, nextId, req, ctx, operations, results,
                 i, writes>>

\* ------------------------------------------------- collections to read from
ReadTags == {Null, <<"a">>, <<"a", Sep, "b">>}

\* whether the rows of a kind differ in tags, and in having been updated
TagsOf(tbl) == IF tbl = "bookmarks" THEN ReadTags ELSE {Null}

TouchedOf(tbl) == IF tbl \in {"notes", "diagrams"} THEN BOOLEAN ELSE {FALSE}

\* a row created as the c-th of n; updated_at is created_at until an update
\* stamps it with a later time
ReadRow(x, uid, tags, c, n, touched) ==
  [id |-> x, user_id |-> uid, title |-> <<"T">>, url |-> <<"u">>,
   version |-> 1, tags |-> tags, created |-> c,
   updated |-> IF touched THEN 2 * n + 1 - c ELSE c]

\* up to MaxRows rows, of any owner, created in any order
SmallStores(tbl) ==
  UNION {{[x \in D |-> ReadRow(x, o[x][1], o[x][2],
                                CHOOSE k \in DOMAIN c : c[k] = x,
                                Cardinality(D), o[x][3])] :
            o \in [D -> Users \X TagsOf(tbl) \X TouchedOf(tbl)],
            c \in Orders(D)} :
         D \in SUBSET (1 .. MaxRows)}

\* DefaultLimit and more rows, the lowest id the newest; all owned by one
\* user, or the second by another
LongStores(tbl) ==
  {[x \in 1 .. n |-> ReadRow(x, IF mixed /\ x = 2 THEN "u2" ELSE "u1",
                              Null, n + 1 - x, n, touched)] :
     n \in DefaultLimit .. DefaultLimit + MaxRows,
     mixed \in BOOLEAN, touched \in TouchedOf(tbl)}

InitRead ==
  /\ table \in Kinds
  /\ store \in SmallStores(table) \cup LongStores(table)
  /\ nextId = DefaultLimit + MaxRows + 1
  /\ Idle

NextRead ==
  \/ Receive({"GetBookmarks", "SearchBookmarks", "GetTags", "GetNotes",
              "GetNote", "GetDiagrams", "GetDiagram", "GetCodeSnippets"})
  \/ RequireAuth
  \/ GetBookmarks
  \/ SearchBookmarks
  \/ GetTags
  \/ GetNotes
  \/ GetNote
  \/ GetDiagrams
  \/ GetDiagram
  \/ GetCodeSnippets

SpecRead == InitRead /\ [][NextRead]_vars

\* ------------------------------------------------------------ link preview
Letters == {"h", "t", "p", "s", "m", "a", "b", "x"}

\* index of the first c in s, 0 when there is none
IndexOf(s, c) ==
  IF \E k \in DOMAIN s : s[k] = c
    THEN CHOOSE k \in DOMAIN s : s[k] = c /\ \A j \in 1 .. k - 1 : s[j] # c
    ELSE 0

RECURSIVE SkipSlashes(_)
SkipSlashes(s) == IF s # <<>> /\ Head(s) = "/" THEN SkipSlashes(Tail(s)) ELSE s

\* new URL(url): a scheme of letters before the first ":"; http and https
\* need a host; ok is FALSE where the constructor throws
ParseUrl(s) ==
  LET colon == IndexOf(s, ":")
      scheme == SubSeq(s, 1, colon - 1)
      special == scheme \in {<<"h", "t", "t", "p">>, <<"h", "t", "t", "p", "s">>}
      rest == SkipSlashes(SubSeq(s, colon + 1, Len(s)))
      slash == IndexOf(rest, "/")
      host == IF ~special THEN <<>>
              ELSE IF slash = 0 THEN rest ELSE SubSeq(rest, 1, slash - 1)
  IN [ok |-> /\ colon > 1
             /\ \A k \in 1 .. colon - 1 : s[k] \in Letters
             /\ special => host # <<>>,
      protocol |-> SubSeq(s, 1, colon),
      host |-> host,
      fetchable |-> special]

\* the url parameter of a request: absent (Null), empty, malformed, valid
ValidUrls ==
  {<<"h", "t", "t", "p", ":", "/", "/", "a", "/", "p">>,
   <<"h", "t", "t", "p", "s", ":", "/", "/", "b">>,
   <<"m", "a", "t", ":", "x">>}
MalformedUrls ==
  {<<"a", "/", "p">>, <<"h", "t", "t", "p", ":", "/", "/">>, <<":", "a">>,
   <<"/", "/", "a">>}
Urls == {Null, <<>>} \cup MalformedUrls \cup ValidUrls

\* how the outbound fetch ends: it rejects, it is aborted after the timeout,
\* it answers with a status outside 200..299, reading the body rejects, or
\* the page arrives
FetchOutcomes == {"network", "timeout", "status404", "status500", "textfails",
                  "ok"}

\* a page, by what the three patterns capture in it (Null: no match)
Pages ==
  [image : {Null, <<"h", "t", "t", "p", ":", "/", "/", "c", "/", "i">>,
            <<"/", "i">>, <<"/", "/", "c", "/", "i">>, <<"i">>},
   ogTitle : {Null, <<"T">>},
   title : {Null, <<" ", "P", " ">>, <<" ">>}]
NoPage == [image |-> Null, ogTitle |-> Null, title |-> Null]

OgJson(image, title) ==
  [status |-> 200, body |-> [ogImage |-> image, title |-> title]]

\* the og:image of a page, made absolute when it starts with "/"
OgImageOf(url, page) ==
  IF page.image = Null THEN Null
  ELSE IF Head(page.image) = "/"
    THEN ParseUrl(url).protocol \o <<"/", "/">> \o ParseUrl(url).host
           \o page.image
  ELSE IF Len(page.image) >= 2 /\ SubSeq(page.image, 1, 2) = <<"/", "/">>
    THEN ParseUrl(url).protocol \o page.image
  ELSE page.image

OgTitleOf(page) ==
  IF page.ogTitle # Null THEN page.ogTitle
  ELSE IF page.title # Null THEN Trim(page.title)
  ELSE Null

\* mutant of OgResponse: a failed fetch is raised to the caller
OgResponse_Raises(url, outcome, page) ==
  IF url = Null \/ url = <<>> THEN OnError(400, "URL parameter is required")
  ELSE IF ~ParseUrl(url).ok THEN OnError(400, "Invalid URL format")
  ELSE IF outcome # "ok" THEN OnError(500, "Internal server error")
  ELSE OgJson(OgImageOf(url, page), OgTitleOf(page))

\* the answer of GetOgImage.handle
OgResponse(url, outcome, page) ==
  IF url = Null \/ url = <<>> THEN OnError(400, "URL parameter is required")
  ELSE IF ~ParseUrl(url).ok THEN OnError(400, "Invalid URL format")
  ELSE IF outcome # "ok" THEN OgJson(Null, Null)
  ELSE OgJson(OgImageOf(url, page), OgTitleOf(page))

GetOgImage ==
  /\ pc = "handle"
  /\ req.endpoint = "GetOgImage"
  /\ pc' = "done"
  /\ \E url \in Urls, outcome \in FetchOutcomes, page \in Pages :
       LET called == url \in Urls \ {Null, <<>>} /\ ParseUrl(url).ok
       IN /\ ~called => outcome = "network"
          /\ called /\ ~ParseUrl(url).fetchable => outcome = "network"
          /\ outcome # "ok" => page = NoPage
          /\ body' = [url |-> url]
          /\ replies' = IF called THEN <<outcome>> ELSE <<>>
          /\ fetched' = IF called /\ outcome = "ok" THEN <<page>> ELSE <<>>
          /\ resp' = OgResponse(url, outcome, page)
  /\ UNCHANGED <<table, store, nextId, req, ctx, operations, results, i,
                 writes>>

InitOg ==
  /\ table = "bookmarks"
  /\ store = <<>>
  /\ nextId = 1
  /\ Idle

NextOg ==
  \/ Receive({"GetOgImage"})
  \/ RequireAuth
  \/ GetOgImage

SpecOg == InitOg /\ [][NextOg]_vars

\* ------------------------------------------------------- create handlers
CreateEndpoints == {"CreateBookmark", "CreateDiagram", "CreateCodeSnippet"}

\* the JSON body of a create request; a client may send any field, a
\* user_id included (url stands for url, shapes, code)
CreateBodies ==
  {[title |-> t, url |-> u, user_id |-> o] :
     t \in {Undef, "t"}, u \in {Undef, "w"}, o \in {Undef} \cup Users}

\* if (!title || !url), if (!title), if (!title || !code)
CreateRejects(endpoint, b) ==
  \/ b.title = Undef
  \/ endpoint # "CreateDiagram" /\ b.url = Undef

CreateRequired(endpoint) ==
  CASE endpoint = "CreateBookmark" -> "Title and URL are required"
    [] endpoint = "CreateDiagram" -> "Title is required"
    [] OTHER -> "Title and code are required"

\* mutant of InsertOwner: a user_id in the body wins
InsertOwner_FromBody(b, user) == IF b.user_id # Undef THEN b.user_id ELSE user

\* user_id: user.id
InsertOwner(b, user) == user

\* CreateBookmark.handle, CreateDiagram.handle, CreateCodeSnippet.handle
CreateRow(endpoint) ==
  /\ pc = "handle"
  /\ req.endpoint = endpoint
  /\ pc' = "done"
  /\ \E b \in CreateBodies, f \in Faults :
       /\ body' = b
       /\ IF CreateRejects(endpoint, b)
            THEN /\ f = "none"
                 /\ resp' = OnError(400, CreateRequired(endpoint))
                 /\ UNCHANGED <<store, nextId, writes, replies>>
            ELSE /\ writes' = writes + 1
                 /\ replies' = Append(replies, Reply(f, TRUE))
                 /\ IF f # "none"
                      THEN /\ resp' = Fail500(f, "Failed to create "
                                                  \o KindName(table))
                           /\ UNCHANGED <<store, nextId>>
                      ELSE /\ store' = StoreInsert(store, nextId,
                                           InsertOwner(b, ctx.user),
                                           b.title, b.url)
                           /\ nextId' = nextId + 1
                           /\ resp' = [status |-> 201,
                                       body |-> [data |-> store'[nextId]]]
  /\ UNCHANGED <<table, fetched, req, ctx, operations, results, i>>

CreateBookmark == CreateRow("CreateBookmark")

CreateDiagram == CreateRow("CreateDiagram")

CreateCodeSnippet == CreateRow("CreateCodeSnippet")

\* every single-resource write route: create, update, delete, duplicate
NextOwner ==
  \/ NextCrud
  \/ Receive(CreateEndpoints)
  \/ CreateBookmark
  \/ CreateDiagram
  \/ CreateCodeSnippet

SpecOwner == InitCrud /\ [][NextOwner]_vars

\* ------------------------------------------- two requests on the same note
\* Two requests in flight at once, each position, context, body and response
\* indexed by the request; every store call is one atomic step and the
\* steps of the two interleave freely.  The note is as created: version 1.
Procs == {1, 2}

RaceNote == [id |-> 1, user_id |-> "u1", title |-> "a", url |-> "u",
             version |-> 1]

\* an update of note 1: UpdateNote body, or the one item of a notes batch
RaceBodies(p) ==
  {[title |-> IF p = 1 THEN "t1" ELSE "t2", url |-> Undef, version |-> v] :
     v \in {NoVersion} \cup (1 .. MaxVersion)}

InitRace ==
  /\ table = "notes"
  /\ store = <<RaceNote>>
  /\ nextId = 2
  /\ pc = [p \in Procs |-> "idle"]
  /\ req = [p \in Procs |-> NoReq]
  /\ ctx = [p \in Procs |-> NoCtx]
  /\ body = [p \in Procs |-> NoBody]
  /\ replies = [p \in Procs |-> <<>>]
  /\ results = [p \in Procs |-> <<>>]
  /\ resp = [p \in Procs |-> NoResp]
  /\ operations = <<>>
  /\ i = 1
  /\ writes = 0
  /\ fetched = <<>>

\* the position a request starts its handler at
RaceStart(e, b) ==
  IF e = "BatchNotes" THEN "item"
  ELSE IF b.version # NoVersion THEN "fetch" ELSE "update"

\* both requests arrive; each has passed requireAuth and had its body read
RaceReceive ==
  /\ \A p \in Procs : pc[p] = "idle"
  /\ \E e \in [Procs -> {"UpdateNote", "BatchNotes"}], u \in [Procs -> Users],
        b \in [Procs -> UNION {RaceBodies(p) : p \in Procs}] :
       /\ \A p \in Procs : b[p] \in RaceBodies(p)
       /\ req' = [p \in Procs |->
                    [endpoint |-> e[p],
                     header |-> [kind |-> "bearer", token |-> "tok_" \o u[p]],
                     id |-> 1]]
       /\ ctx' = [p \in Procs |-> [user |-> GetUser("tok_" \o u[p]).user,
                                    authToken |-> "tok_" \o u[p]]]
       /\ body' = b
       /\ pc' = [p \in Procs |-> RaceStart(e[p], b[p])]
  /\ UNCHANGED <<table, store, nextId, operations, results, i, replies, resp,
                 writes, fetched>>

\* UpdateNote.handle: the select of the current note and the comparison
RaceFetch(p) ==
  /\ pc[p] = "fetch"
  /\ \E f \in Faults :
       LET hit == Matches(store, req[p].id, ctx[p].user, NoVersion)
           out == IF f # "none"
                    THEN OnError(500, "Failed to fetch current note")
                  ELSE IF ~hit THEN OnError(404, "Note not found")
                  ELSE IF store[req[p].id].version # body[p].version
                    THEN Conflict409(store[req[p].id], body[p])
                  ELSE NoResp
       IN /\ replies' = [replies EXCEPT ![p] = Append(@, Reply(f, hit))]
          /\ resp' = [resp EXCEPT ![p] = out]
          /\ pc' = [pc EXCEPT ![p] = IF out = NoResp THEN "update" ELSE "done"]
  /\ UNCHANGED <<table, store, nextId, req, ctx, operations, body, results, i,
                 writes, fetched>>

\* UpdateNote.handle: update(updateNote).eq(id).eq(user_id).select().single()
RaceWrite(p) ==
  /\ pc[p] = "update"
  /\ pc' = [pc EXCEPT ![p] = "done"]
  /\ \E f \in Faults :
       LET hit == Matches(store, req[p].id, ctx[p].user, NoVersion)
       IN /\ replies' = [replies EXCEPT ![p] = Append(@, Reply(f, hit))]
          /\ IF f # "none"
               THEN /\ resp' = [resp EXCEPT
                                  ![p] = OnError(500, "Failed to update note")]
                    /\ store' = store
               ELSE IF ~hit
                 THEN /\ resp' = [resp EXCEPT
                                    ![p] = OnError(404, "Note not found")]
                      /\ store' = store
                 ELSE /\ store' = StoreUpdate(store, req[p].id,
                                              UpdateNoteData(body[p]))
                      /\ resp' = [resp EXCEPT ![p] =
                            [status |-> 200,
                             body |-> [data |-> store'[req[p].id]]]]
  /\ UNCHANGED <<table, nextId, req, ctx, operations, body, results, i, writes,
                 fetched>>

\* BatchNotes.handle over the one update item, and its response
RaceBatchUpdate(p) ==
  /\ pc[p] = "item"
  /\ pc' = [pc EXCEPT ![p] = "done"]
  /\ \E f \in Faults :
       LET op == [operation |-> "update", id |-> req[p].id,
                  title |-> body[p].title, url |-> body[p].url,
                  version |-> body[p].version]
           hit == Matches(store, op.id, ctx[p].user, op.version)
           r == IF f # "none" THEN CatchResult(op, f)
                ELSE IF hit
                  THEN Result(TRUE, "update", op.id, Undef,
                              <<store'[op.id]>>)
                ELSE Result(FALSE, "update", op.id, VersionConflict("notes"),
                            <<>>)
       IN /\ replies' = [replies EXCEPT ![p] = Append(@, Reply(f, hit))]
          /\ store' = IF f = "none" /\ hit
                        THEN StoreUpdate(store, op.id, BatchUpdateData(op))
                        ELSE store
          /\ results' = [results EXCEPT ![p] = <<r>>]
          /\ resp' = [resp EXCEPT ![p] =
                [status |-> 200,
                 body |-> [results |-> <<r>>, summary |-> Summary(<<op>>, <<r>>)]]]
  /\ UNCHANGED <<table, nextId, req, ctx, operations, body, i, writes, fetched>>

NextRace ==
  \/ RaceReceive
  \/ \E p \in Procs : RaceFetch(p)
  \/ \E p \in Procs : RaceWrite(p)
  \/ \E p \in Procs : RaceBatchUpdate(p)

SpecRace == InitRace /\ [][NextRace]_vars

\* --------------------------------------- one batch request, call by call
\* The loop of one authenticated batch request with each store call split
\* into its issue and its return; fetched logs the items whose call has been
\* issued, in the order of issue.
Issued == {fetched[k] : k \in DOMAIN fetched}

\* the iteration of item op reaches an "await supabase..." call
NeedsCall(tbl, op) ==
  \/ op.operation = "create" /\ ~CreateInvalid(tbl, op)
  \/ op.operation \in {"update", "delete"} /\ op.id # NoId

\* mutant of Issuable: the calls of the items ahead are issued as well
Issuable_Ahead(k) == k >= i

\* the loop issues the call of the item it stands at
Issuable(k) == k = i

\* the store call of an item is sent
BatchIssue ==
  /\ pc = "loop"
  /\ \E k \in DOMAIN operations :
       /\ Issuable(k)
       /\ NeedsCall(TableOf(req.endpoint), operations[k])
       /\ k \notin Issued
       /\ fetched' = Append(fetched, k)
  /\ UNCHANGED <<table, store, nextId, pc, req, ctx, operations, body, results,
                 i, replies, resp, writes>>

\* the await resumes (or the item needed no call): the rest of the iteration
BatchReturn ==
  /\ pc = "loop"
  /\ i <= Len(operations)
  /\ NeedsCall(TableOf(req.endpoint), operations[i]) => i \in Issued
  /\ BatchStep

\* an authenticated batch request about to read its body, over an empty
\* collection or one holding a row of the caller or of another user
InitCalls ==
  /\ table \in Tables
  /\ \E u \in Users, D \in SUBSET OpIds :
       store = [x \in D |-> [id |-> x, user_id |-> u, title |-> "a",
                              url |-> "u", version |-> 1]]
  /\ nextId = Cardinality(DOMAIN store) + 1
  /\ pc = "handle"
  /\ \E e \in BatchEndpoints :
       /\ TableOf(e) = table
       /\ req = [endpoint |-> e,
                 header |-> [kind |-> "bearer", token |-> "tok_u1"],
                 id |-> NoId]
  /\ ctx = [user |-> "u1", authToken |-> "tok_u1"]
  /\ operations = <<>>
  /\ body = NoBody
  /\ results = <<>>
  /\ i = 1
  /\ replies = <<>>
  /\ resp = NoResp
  /\ writes = 0
  /\ fetched = <<>>

NextCalls ==
  \/ BatchStart
  \/ BatchIssue
  \/ BatchReturn
  \/ BatchFinish

SpecCalls == InitCalls /\ [][NextCalls]_vars

\* the runtime keeps running the handler and every store call returns
SpecCallsFair == SpecCalls /\ WF_vars(NextCalls)

\* ================================================================ claims
IsBatch == req.endpoint \in BatchEndpoints
Owned(id) == id \in DOMAIN store /\ store[id].user_id = ctx.user
LastOf(sq) == sq[Len(sq)]

\* C1 (as claimed): a request whose Authorization header is missing or
\* malformed, or whose token the verification rejects, is answered with
\* HTTP 401.
C1_Unauthenticated401 ==
  (pc = "done"
     /\ (req.header.kind # "bearer" \/ GetUser(req.header.token).error))
    => resp.status = 401

\* an item that is individually invalid: update or delete without id,
\* bookmark create without url
ItemInvalid(op) ==
  \/ op.operation \in {"update", "delete"} /\ op.id = NoId
  \/ op.operation = "create" /\ table = "bookmarks" /\ op.url = Undef

AllInvalid ==
  /\ Len(operations) >= 1
  /\ \A k \in DOMAIN operations : ItemInvalid(operations[k])

\* C2: a batch of N >= 1 operations that are all individually invalid is
\* answered 200 with summary.failed = N and summary.successful = 0, and no
\* store write is issued.
C2_AllInvalidBatch ==
  (pc = "done" /\ AllInvalid)
    => /\ resp.status = 200
       /\ resp.body.summary.failed = Len(operations)
       /\ resp.body.summary.successful = 0
       /\ writes = 0
       /\ \A k \in DOMAIN replies : replies[k] = "nocall"

C2_Witness ==
  /\ pc = "done"
  /\ AllInvalid
  /\ Len(operations) >= 2
  /\ operations[1] # operations[2]
  /\ resp.status = 200
  /\ resp.body.summary.failed = Len(operations)

\* C3 (as claimed): the results list of a batch response has exactly one
\* entry per operation, in request order, and entry k echoes the operation
\* type of operation k and its id when the request supplied one.
C3_ResultsEchoOperations ==
  (pc = "done" /\ IsBatch /\ resp.status = 200)
    => /\ Len(resp.body.results) = Len(operations)
       /\ \A k \in DOMAIN operations :
            /\ resp.body.results[k].operation = operations[k].operation
            /\ operations[k].id # NoId
                 => resp.body.results[k].id = operations[k].id

\* C4 (as claimed): in a batch response summary.total is the number of
\* operations, successful and failed count the results by their success
\* flag, and successful + failed = total.
C4_SummaryCounts ==
  (pc = "done" /\ IsBatch /\ resp.status = 200)
    => LET sm == resp.body.summary
           rs == resp.body.results
       IN /\ sm.total = Len(operations)
          /\ sm.successful = Cardinality({k \in DOMAIN rs : rs[k].success})
          /\ sm.failed = Cardinality({k \in DOMAIN rs : ~rs[k].success})
          /\ sm.successful + sm.failed = sm.total

\* C5 (as claimed): when the store reports a fault while a batch item is
\* applied, the item is recorded as a failed result carrying the fault's
\* message, and the loop goes on to the next item without emitting an error
\* response.
C5_FaultCarriesMessage ==
  [][(pc = "loop" /\ Len(replies') = Len(replies) + 1
        /\ LastOf(replies') \in FaultReplies)
       => /\ results' = Append(results,
                 Result(FALSE, operations[i].operation, operations[i].id,
                        FaultMsg, <<>>))
          /\ pc' = "loop"
          /\ i' = i + 1
          /\ resp' = resp]_vars

\* the case of C6: a finished bookmark batch [delete id=X, create url=Y]
\* whose delete reached no row and whose create was applied by the store
C6_Case ==
  /\ pc = "done"
  /\ req.endpoint = "BatchBookmarks"
  /\ Len(operations) = 2
  /\ operations[1].operation = "delete"
  /\ operations[1].id # NoId
  /\ operations[2].operation = "create"
  /\ operations[2].url # Undef
  /\ replies = <<"rows0", "rows1">>

\* C6 (as claimed): in that case the delete result is a failure and the
\* create is recorded as a success.
C6_DeleteMissingFails ==
  C6_Case => (~results[1].success /\ results[2].success)

\* C6 (amended): in that case the delete result is a success, and the
\* create still executes and is recorded as a success with the stored row.
C6_DeleteMissingThenCreate ==
  C6_Case
    => /\ resp.status = 200
       /\ resp.body.results = results
       /\ results[1].success /\ results[1].operation = "delete"
       /\ results[1].id = operations[1].id
       /\ results[2].success /\ results[2].operation = "create"
       /\ results[2].id \in DOMAIN store
       /\ results[2].data = <<store[results[2].id]>>
       /\ store[results[2].id].url = operations[2].url
       /\ store[results[2].id].user_id = ctx.user

C6_Witness == C6_Case /\ resp.status = 200 /\ Len(results) = 2

\* C7: a batch delete item with an id that reaches no row of the caller is
\* not recorded as a failure; a delete item is recorded as failed only when
\* its id is missing or the store reports a fault.
C7_DeleteMissIsBenign ==
  [][(pc = "loop" /\ i <= Len(operations) /\ i' = i + 1
        /\ operations[i].operation = "delete")
       => /\ Len(results') = Len(results) + 1
          /\ LastOf(results').operation = "delete"
          /\ (operations[i].id # NoId /\ LastOf(replies') = "rows0")
               => LastOf(results').success
          /\ ~LastOf(results').success
               => (operations[i].id = NoId
                     \/ LastOf(replies') \in FaultReplies)]_vars

C7_Witness ==
  /\ pc = "done"
  /\ IsBatch
  /\ Len(operations) = 1
  /\ operations[1].operation = "delete"
  /\ operations[1].id # NoId
  /\ replies = <<"rows0">>
  /\ resp.status = 200
  /\ resp.body.results[1].success

\* C8: a batch update item that supplies version v changes the store only if
\* the caller's row is stored at exactly version v; otherwise the store is
\* left unchanged and, when the store answers "no row", the item is recorded
\* as a failure with the version-conflict message.
C8_VersionedBatchUpdate ==
  [][(pc = "loop" /\ i <= Len(operations) /\ i' = i + 1
        /\ operations[i].operation = "update"
        /\ operations[i].id # NoId
        /\ operations[i].version # NoVersion)
       => LET op == operations[i]
              atVersion == Owned(op.id) /\ store[op.id].version = op.version
          IN /\ ~atVersion => store' = store
             /\ (~atVersion /\ LastOf(replies') \notin FaultReplies)
                  => results' = Append(results,
                        Result(FALSE, "update", op.id,
                               VersionConflict(table), <<>>))]_vars

C8_Witness ==
  /\ pc = "done"
  /\ IsBatch
  /\ Len(operations) = 1
  /\ operations[1].operation = "update"
  /\ operations[1].title # Undef
  /\ operations[1].version # NoVersion
  /\ Owned(operations[1].id)
  /\ store[operations[1].id].version # operations[1].version
  /\ store[operations[1].id].title # operations[1].title
  /\ replies = <<"rows0">>
  /\ resp.status = 200
  /\ resp.body.results[1].error = VersionConflict(table)

\* C9 (as claimed): every successful update, single-note Update or batch
\* update item, increases the stored version of the row by exactly 1.
C9_UpdateIncrementsVersion ==
  [][/\ (pc = "update" /\ pc' = "done" /\ resp'.status = 200)
          => store'[req.id].version = store[req.id].version + 1
     /\ (pc = "loop" /\ i <= Len(operations) /\ i' = i + 1
           /\ operations[i].operation = "update"
           /\ Len(results') = Len(results) + 1
           /\ LastOf(results').success)
          => store'[operations[i].id].version
               = store[operations[i].id].version + 1]_vars

\* C10: a single-note Update that supplies version v while the caller's
\* note is stored at version w # v is answered 409 with data.version = w,
\* and the store is left unchanged.
C10_Conflict409 ==
  [][(pc = "fetch" /\ Owned(req.id)
        /\ store[req.id].version # body.version
        /\ Len(replies') = Len(replies) + 1
        /\ LastOf(replies') \notin FaultReplies)
       => /\ resp'.status = 409
          /\ resp'.body.status = 409
          /\ resp'.body.data.version = store[req.id].version
          /\ resp'.body.data.version # body.version
          /\ store' = store
          /\ writes' = 0
          /\ pc' = "done"]_vars

C10_Witness ==
  /\ pc = "done"
  /\ req.endpoint = "UpdateNote"
  /\ body.version = 1
  /\ Owned(req.id)
  /\ store[req.id].version = 2
  /\ resp.status = 409
  /\ resp.body.data.version = 2
  /\ writes = 0

\* ------------------------------------------ single-resource writes (C13-C17)
UpdateEndpoints ==
  {"UpdateBookmark", "UpdateNote", "UpdateDiagram", "UpdateCodeSnippet"}
DeleteEndpoints ==
  {"DeleteBookmark", "DeleteNote", "DeleteDiagram", "DeleteCodeSnippet"}
Authenticated == ctx.user # Undef
NoFaults(rs) == \A k \in DOMAIN rs : rs[k] \notin FaultReplies

\* C13: no step taken for a request of user U modifies or removes a row
\* whose user_id is another user: every update, delete and duplicate (and
\* batch item) reaches rows through the caller's user_id as well as the id.
C13_ForeignRowsUntouched ==
  [][\A x \in DOMAIN store :
       store[x].user_id # ctx.user
         => (x \in DOMAIN store' /\ store'[x] = store[x])]_vars

C13_Witness ==
  /\ pc = "done"
  /\ req.endpoint \in UpdateEndpoints \cup DeleteEndpoints
  /\ Authenticated
  /\ writes = 1
  /\ req.id \in DOMAIN store
  /\ store[req.id].user_id # ctx.user
  /\ replies = <<"rows0">>

\* C14 (as claimed): a single-resource Delete whose id matches no row of the
\* caller is answered 404, for every resource kind.
C14_DeleteMissing404 ==
  (pc = "done" /\ req.endpoint \in DeleteEndpoints /\ Authenticated
     /\ replies = <<"rows0">>)
    => resp.status = 404

\* C15 (as claimed): a single-resource Update that carries some field and
\* whose id matches no row of the caller is answered 404 and changes no row,
\* for every resource kind.
C15_UpdateMissing404 ==
  [][(pc # "done" /\ pc' = "done" /\ req.endpoint \in UpdateEndpoints
        /\ ~EmptyCols(UpdateCols(body'))
        /\ Len(replies') > Len(replies)
        /\ LastOf(replies') = "rows0")
       => (resp'.status = 404 /\ store' = store)]_vars

\* C16 (as claimed): a single-resource Update whose body supplies no field
\* at all is answered 400 "No fields provided to update" without a store
\* write, for every resource kind.
C16_EmptyUpdate400 ==
  (pc = "done" /\ req.endpoint \in UpdateEndpoints /\ Authenticated
     /\ body = NoBody)
    => /\ resp.status = 400
       /\ resp.body.message = "No fields provided to update"
       /\ writes = 0

\* C17: a successful Update, or batch update item, changes only the fields
\* the request carries (and the version) of the addressed row: an omitted
\* field keeps its value, owner and id stay, every other row is unchanged.
FrameOf(id, cols) ==
  /\ DOMAIN store' = DOMAIN store
  /\ \A x \in DOMAIN store : x # id => store'[x] = store[x]
  /\ store'[id].id = store[id].id
  /\ store'[id].user_id = store[id].user_id
  /\ store'[id].title = IF cols.title # Undef THEN cols.title ELSE store[id].title
  /\ store'[id].url = IF cols.url # Undef THEN cols.url ELSE store[id].url

C17_UpdateFrame ==
  [][/\ (pc # "done" /\ pc' = "done" /\ req.endpoint \in UpdateEndpoints
           /\ resp'.status = 200)
          => FrameOf(req.id, body')
     /\ (pc = "loop" /\ i <= Len(operations) /\ i' = i + 1
           /\ operations[i].operation = "update"
           /\ Len(results') = Len(results) + 1
           /\ LastOf(results').success)
          => FrameOf(operations[i].id, operations[i])]_vars

C17_Witness ==
  /\ pc = "done"
  /\ req.endpoint \in UpdateEndpoints
  /\ resp.status = 200
  /\ body.title = "t"
  /\ body.url = Undef
  /\ store[req.id].title = "t"
  /\ store[req.id].url = "u"
  /\ \E x \in DOMAIN store : x # req.id

\* ------------------------------------------------- tag aggregation (C19)
\* the places (row, piece) where the caller's bookmark tag fields hold text
OwnPieces ==
  UNION {{<<x, j>> : j \in DOMAIN Split(store[x].tags, Sep)} :
         x \in {y \in DOMAIN store :
                  store[y].user_id = ctx.user /\ store[y].tags # Null}}

PieceAt(p) == Trim(Split(store[p[1]].tags, Sep)[p[2]])

OwnTags == {PieceAt(p) : p \in OwnPieces} \ {<<>>}

Occurrences(t) == Cardinality({p \in OwnPieces : PieceAt(p) = t})

\* tag t1 is met before tag t2 in the rows as the store returned them
MetBefore(t1, t2) ==
  \E k1 \in DOMAIN fetched :
    \E j1 \in DOMAIN Split(fetched[k1].tags, Sep) :
      /\ Trim(Split(fetched[k1].tags, Sep)[j1]) = t1
      /\ \A k2 \in DOMAIN fetched :
           \A j2 \in DOMAIN Split(fetched[k2].tags, Sep) :
             Trim(Split(fetched[k2].tags, Sep)[j2]) = t2
               => (k1 < k2 \/ (k1 = k2 /\ j1 < j2))

ListEndpoints == {"GetBookmarks", "SearchBookmarks", "GetNotes", "GetDiagrams",
                  "GetCodeSnippets"}
GetOneEndpoints == {"GetNote", "GetDiagram"}
Done200(E) == pc = "done" /\ req.endpoint \in E /\ resp.status = 200
Foreign(id) == id \in DOMAIN store /\ store[id].user_id # ctx.user

\* C11: every list, search, tag-aggregation and get-one endpoint returns only
\* data of rows whose user_id is the caller's; a get-by-id of a row of
\* another user answers 404.
C11_OnlyOwnRows ==
  /\ Done200(ListEndpoints)
       => \A k \in DOMAIN resp.body.data :
            LET row == resp.body.data[k]
            IN /\ row.user_id = ctx.user
               /\ row.id \in DOMAIN store
               /\ store[row.id] = row
  /\ Done200({"GetTags"})
       => \A k \in DOMAIN resp.body.data : resp.body.data[k].tag \in OwnTags
  /\ Done200(GetOneEndpoints)
       => /\ req.id \in DOMAIN store
          /\ resp.body.data = store[req.id]
          /\ resp.body.data.user_id = ctx.user
  /\ (/\ pc = "done" /\ req.endpoint \in GetOneEndpoints
      /\ Authenticated /\ NoFaults(replies) /\ Foreign(req.id))
       => resp.status = 404

C11_Witness ==
  /\ Done200(ListEndpoints)
  /\ resp.body.data # <<>>
  /\ \E x \in DOMAIN store : Foreign(x)

\* the collection without the rows of other users
OwnPart == [x \in RowsOf(store, ctx.user) |-> store[x]]

\* collections that differ from the current one in rows of other users only:
\* the current one, the one without such rows, and those with one such row
OtherRows ==
  {[y \in RowsOf(store, ctx.user) \cup {x} |->
      IF y = x THEN ReadRow(x, u, Null, 1, 1, FALSE) ELSE store[y]] :
     x \in (1 .. MaxRows) \ RowsOf(store, ctx.user),
     u \in Users \ {ctx.user}}
    \cup {OwnPart, store}

\* C12: the answer of a get-one for an id owned by another user is the answer
\* given when no row has that id: collections that differ only in rows of
\* other users yield the same response.
C12_ForeignLikeAbsent ==
  (pc = "done" /\ req.endpoint \in GetOneEndpoints /\ Authenticated)
    => LET f == IF LastOf(replies) \in FaultReplies THEN LastOf(replies)
                                                   ELSE "none"
       IN \A st \in OtherRows :
            GetOneResponse(req.endpoint, st, ctx.user, req.id, f) = resp

C12_Witness ==
  /\ pc = "done" /\ req.endpoint \in GetOneEndpoints
  /\ Authenticated /\ NoFaults(replies)
  /\ Foreign(req.id)
  /\ resp.status = 404

\* a list request without query parameters that was answered with 200
Plain(E) == Done200(E) /\ body = NoQuery
Own == RowsOf(store, ctx.user)
Desc(data, col) == \A k \in 1 .. Len(data) - 1 : data[k][col] >= data[k + 1][col]
Complete(data) ==
  /\ {data[k].id : k \in DOMAIN data} = Own
  /\ Len(data) = Cardinality(Own)

\* C18 as stated: for every resource kind a list request without filters
\* returns all rows of the caller, none omitted, whatever their number,
\* ordered newest-first by creation/add time.
C18_ListAllNewestFirst ==
  Plain({"GetBookmarks", "GetNotes", "GetDiagrams", "GetCodeSnippets"})
    => /\ Complete(resp.body.data)
       /\ Desc(resp.body.data, "created")

\* C18 amended: a list request without parameters returns rows of the caller
\* only, each once; bookmarks, diagrams and code snippets return all of
\* them, notes the DefaultLimit newest and the total in count; the order is
\* newest-first by creation/add time, for diagrams by last update.
C18_ListDefault ==
  /\ Plain({"GetBookmarks", "GetNotes", "GetDiagrams", "GetCodeSnippets"})
       => LET data == resp.body.data
          IN /\ \A k \in DOMAIN data :
                  data[k].id \in Own /\ data[k] = store[data[k].id]
             /\ \A j, k \in DOMAIN data : j # k => data[j].id # data[k].id
  /\ Plain({"GetBookmarks", "GetDiagrams", "GetCodeSnippets"})
       => Complete(resp.body.data)
  /\ Plain({"GetNotes"})
       => LET data == resp.body.data
          IN /\ resp.body.count = Cardinality(Own)
             /\ Len(data) = IF Cardinality(Own) < DefaultLimit
                               THEN Cardinality(Own) ELSE DefaultLimit
             /\ \A x \in Own \ {data[k].id : k \in DOMAIN data} :
                  \A k \in DOMAIN data : data[k].created >= store[x].created
  /\ Plain({"GetBookmarks", "GetNotes", "GetCodeSnippets"})
       => Desc(resp.body.data, "created")
  /\ Plain({"GetDiagrams"}) => Desc(resp.body.data, "updated")

C18_Witness ==
  /\ Plain({"GetNotes"})
  /\ Cardinality(Own) > DefaultLimit
  /\ Len(resp.body.data) = DefaultLimit
  /\ \E x \in DOMAIN store : Foreign(x)

OgDone == pc = "done" /\ req.endpoint = "GetOgImage" /\ Authenticated

\* C20: a link-preview request with a syntactically valid url answers 200,
\* and with {ogImage: null, title: null} whenever the outbound fetch or the
\* reading of the page fails; only a missing or malformed url answers 400.
C20_PreviewDegrades ==
  OgDone
    => /\ body.url \in ValidUrls => resp.status = 200
       /\ (body.url \in ValidUrls /\ replies # <<"ok">>)
            => resp = [status |-> 200,
                       body |-> [ogImage |-> Null, title |-> Null]]
       /\ resp.status = 400 <=> body.url \notin ValidUrls
       /\ resp.status \in {200, 400}

C20_Witness ==
  /\ OgDone
  /\ body.url \in ValidUrls
  /\ replies = <<"timeout">>
  /\ resp.status = 200
  /\ resp.body.ogImage = Null

MaxBatch == 100
OpTags == {"create", "update", "delete"}

\* a batch envelope the request schema does not admit
Malformed(ops) ==
  \/ ops = <<>>
  \/ Len(ops) > MaxBatch
  \/ \E k \in DOMAIN ops : ops[k].operation \notin OpTags

\* C21 (as claimed): a batch whose operations list is empty, longer than
\* 100 items or holds an item outside the operation schema is rejected with
\* a 4xx response before any operation is applied to the store.
C21_MalformedRejected ==
  [][(pc = "loop" /\ pc' = "done" /\ Malformed(operations))
       => /\ resp'.status \in 400 .. 499
          /\ writes' = 0]_vars

\* the collection after item op, reported with result r, has been applied
Applied(st, op, r) ==
  CASE op.operation = "create" ->
         [x \in DOMAIN st \cup {r.id} |->
            IF x \in DOMAIN st THEN st[x]
            ELSE [id |-> r.id, user_id |-> ctx.user,
                  title |-> IF op.title # Undef THEN op.title
                            ELSE IF table = "bookmarks" THEN op.url ELSE "",
                  url |-> op.url, version |-> 1]]
    [] op.operation = "update" ->
         [x \in DOMAIN st |->
            IF x = op.id
              THEN [id |-> x, user_id |-> st[x].user_id,
                    title |-> IF op.title # Undef THEN op.title
                                                  ELSE st[x].title,
                    url |-> IF op.url # Undef THEN op.url ELSE st[x].url,
                    version |-> st[x].version]
              ELSE st[x]]
    [] OTHER ->
         [x \in {y \in DOMAIN st : ~(y = op.id /\ st[y].user_id = ctx.user)}
            |-> st[x]]

\* C22: a batch is not rolled back: each item reported successful is applied
\* to the collection as it stands after the items before it, an item
\* reported failed (or not reported) has no effect, and neither a failure
\* nor the response undoes an earlier item or stops a later one.
C22_NoRollback ==
  [][pc = "loop"
       => IF Len(results') = Len(results) + 1 /\ LastOf(results').success
            THEN /\ store' = Applied(store, operations[i], LastOf(results'))
                 /\ LastOf(results').id \notin DOMAIN store
                      => operations[i].operation # "update"
                 /\ pc' = "loop"
            ELSE /\ store' = store
                 /\ i <= Len(operations) => pc' = "loop" /\ i' = i + 1]_vars

C22_Witness ==
  /\ pc = "done" /\ IsBatch /\ resp.status = 200
  /\ Len(resp.body.results) = 2
  /\ resp.body.results[1].success
  /\ resp.body.results[1].operation = "create"
  /\ ~resp.body.results[2].success
  /\ resp.body.results[1].id \in DOMAIN store

Generic500 ==
  [status |-> 500, body |-> [status |-> 500, message |-> "Internal server error"]]

\* C23 (as claimed): when the auth middleware or a single-resource handler
\* hits a store error or an unexpected exception, the response is 500 with
\* the body {status: 500, message: "Internal server error"}; the text of the
\* store error or exception never reaches the response.
C23_GenericFault ==
  pc = "done"
    => /\ resp.status >= 500 => resp = Generic500
       /\ resp.status >= 400 => resp.body.message # FaultMsg
       /\ (\E k \in DOMAIN replies : replies[k] \in FaultReplies)
            => resp = Generic500

RaceSuccess(p) ==
  IF req[p].endpoint = "UpdateNote" THEN resp[p].status = 200
  ELSE results[p][1].success

RaceConflict(p) ==
  IF req[p].endpoint = "UpdateNote" THEN resp[p].status = 409
  ELSE results[p][1].error = VersionConflict("notes")

\* C24 (as claimed): of two concurrent updates of the same note that both
\* carry the version currently stored, whatever the interleaving of their
\* store calls, at most one is reported successful and the other is
\* reported as a version conflict.
C24_OneWriterWins ==
  (/\ \A p \in Procs :
        /\ pc[p] = "done"
        /\ ctx[p].user = RaceNote.user_id
        /\ body[p].version = RaceNote.version
        /\ NoFaults(replies[p]))
    => \E p, q \in Procs : p # q /\ RaceSuccess(p) /\ RaceConflict(q)

\* the store calls of the request that were issued and have not returned
Outstanding == {k \in Issued : k >= i}

\* C25: within one batch request the store calls are issued in operation
\* order, the call of an item is not issued before the result of the item
\* before it is recorded, and at most one call is outstanding at any time.
C25_OneCallAtATime ==
  /\ Cardinality(Outstanding) <= 1
  /\ \A j, k \in DOMAIN fetched : j < k => fetched[j] < fetched[k]
  /\ \A k \in Issued : k <= i /\ Len(replies) >= k - 1
  /\ \A k \in Outstanding : Len(replies) = k - 1

C25_Witness ==
  /\ pc = "loop"
  /\ Len(fetched) = 2
  /\ Outstanding = {2}
  /\ Len(results) = 1

\* the identity the issuer vouches for: the request carries a bearer token
\* of user u
VerifiedAs(u) ==
  /\ req.header.kind = "bearer"
  /\ \/ req.header.token = "tok_u1" /\ u = "u1"
     \/ req.header.token = "tok_u2" /\ u = "u2"

\* the request context holds the identity and token verified for the request
CtxVerified ==
  /\ VerifiedAs(ctx.user)
  /\ ctx.authToken = req.header.token

\* C26: no handler code runs and no store call on a collection is issued
\* for a request unless its identity verification has succeeded before, and
\* the user and token in the request context are those verified for it.
C26_AuthBeforeHandler ==
  /\ pc \notin {"idle", "auth", "done"} => CtxVerified
  /\ (replies # <<>> \/ writes > 0 \/ resp.status \in 200 .. 499) => CtxVerified
  /\ ~CtxVerified => ctx = NoCtx

C26_Witness ==
  /\ pc = "done"
  /\ req.header.token = "tok_u2"
  /\ ctx.user = "u2"
  /\ writes > 0
  /\ resp.status = 200

\* C27: every stored row's user_id is the verified identity of the request
\* that created it: a create, duplicate or batch create inserts the row
\* under the authenticated identity whatever the body says, and no update
\* or delete path changes the user_id of a row.
C27_OwnerIsCreator ==
  [][/\ \A x \in DOMAIN store' \ DOMAIN store : VerifiedAs(store'[x].user_id)
     /\ \A x \in DOMAIN store' \cap DOMAIN store :
          store'[x].user_id = store[x].user_id]_vars

C27_Witness ==
  /\ pc = "done"
  /\ req.endpoint \in CreateEndpoints
  /\ resp.status = 201
  /\ body.user_id \notin {Undef, ctx.user}
  /\ resp.body.data.user_id = ctx.user

\* position in results of the outcome of item k: items the switch passes
\* over leave no entry
ResultIndex(k) ==
  k - Cardinality({j \in 1 .. k - 1 : operations[j].operation \notin OpTags})

\* where item k of the batch stands
ItemState(k) ==
  IF k >= i
    THEN IF k \in Issued THEN "applying" ELSE "pending"
  ELSE IF operations[k].operation \notin OpTags THEN "dropped"
  ELSE IF results[ResultIndex(k)].success THEN "succeeded"
  ELSE "failed"

ItemMoves ==
  {<<"pending", "pending">>, <<"pending", "applying">>, <<"pending", "failed">>,
   <<"applying", "applying">>, <<"applying", "succeeded">>,
   <<"applying", "failed">>, <<"succeeded", "succeeded">>,
   <<"failed", "failed">>}

CallsOf(k) == Cardinality({j \in DOMAIN fetched : fetched[j] = k})

\* C28 (as claimed): every batch item goes pending -> validating ->
\* applying -> succeeded | failed and ends in exactly one terminal state; it
\* issues at most one store write and is never retried; and, every store
\* call returning, every item reaches a terminal state and the batch
\* response is emitted.
C28_ItemLifecycle ==
  /\ [](\A k \in DOMAIN operations : CallsOf(k) <= 1)
  /\ [][\A k \in DOMAIN operations \cap DOMAIN operations' :
          <<ItemState(k), ItemState(k)'>> \in ItemMoves]_vars
  /\ <>(/\ pc = "done"
        /\ resp.status # 0
        /\ \A k \in DOMAIN operations :
             ItemState(k) \in {"succeeded", "failed"})

\* the step records the version-conflict message for the item in hand
ConflictRecorded ==
  /\ pc = "loop"
  /\ i <= Len(operations)
  /\ Len(results') = Len(results) + 1
  /\ LastOf(results').error = VersionConflict(table)

\* C29 (as claimed): a batch update item is recorded with the
\* version-conflict message only when the request supplied a version; an
\* update item without a version whose id matches no row owned by the caller
\* is not reported as a version conflict.
C29_ConflictNeedsVersion ==
  [][ConflictRecorded
       => /\ operations[i].operation = "update"
          /\ operations[i].version # NoVersion
          /\ ~Owned(operations[i].id)
               => operations[i].version # NoVersion]_vars

StartsWith(sq, pre) ==
  Len(sq) >= Len(pre) /\ SubSeq(sq, 1, Len(pre)) = pre

\* C30 (as claimed): the link preview resolves the page's og:image against
\* the source URL: a root-relative value '/path' becomes
\* '<protocol>//<host>/path', a protocol-relative value '//host2/path'
\* becomes '<protocol>//host2/path', and an absolute value is returned
\* unchanged.
C30_ImageResolved ==
  (OgDone /\ replies = <<"ok">> /\ fetched # <<>> /\ fetched[1].image # Null)
    => LET image == fetched[1].image
           source == ParseUrl(body.url)
       IN /\ StartsWith(image, <<"/", "/">>)
               => resp.body.ogImage = source.protocol \o image
          /\ (StartsWith(image, <<"/">>) /\ ~StartsWith(image, <<"/", "/">>))
               => resp.body.ogImage
                    = source.protocol \o <<"/", "/">> \o source.host \o image
          /\ ParseUrl(image).ok => resp.body.ogImage = image

====
